---- MODULE Spec2Model ----
(***************************************************************************)
(* Model of the universal patch server (src/src/main.rs, protocol.rs):     *)
(* the patch catalog and its resolver (PatchProvider), the socket          *)
(* coordinator with one accept loop per patch version, and the per         *)
(* connection message loop (handle_client).                                *)
(***************************************************************************)
EXTENDS Integers, Sequences, FiniteSets, TLC

(***************************************************************************)
(* Bounds of the model.                                                    *)
(***************************************************************************)
MaxVersion == 3     \* resolver harness: patch versions are drawn from 1..MaxVersion
MaxPatches == 3     \* resolver harness: longest catalog
MaxSessions == 2    \* connections accepted in one run
MaxPending == 1     \* connections waiting in the listeners' backlogs at one time
MaxInFlight == 1    \* messages a client has sent whose handling has not finished
MaxPipeline == 2    \* the same, for the client that writes ahead of the answers

(***************************************************************************)
(* Constants of the program.                                               *)
(***************************************************************************)
PortBase == 32000       \* accept_patch: let port = 32000 + patch
U16Modulus == 65536     \* patch versions and ports are u16
ServerPort == 80        \* PatchError::Update.server_port
Locality == 18          \* IdentityInformation.locality (0x12)

(***************************************************************************)
(* Relative file paths (PathBuf), as sequences of path components.         *)
(***************************************************************************)
FileA == <<"a.txt">>
FileB == <<"b.txt">>
FileSub == <<"data", "c.txt">>
FilePool == {FileA, FileB}

\* Option<u16>
None == <<>>
Some(v) == <<v>>

VARIABLES
    patches,          \* PatchProvider.patches: Vec<Patch>
    query,            \* resolver harness: the last call of collect_necessary_files
    overflow_checks,  \* build profile: TRUE panics on integer overflow, FALSE wraps
    pc,               \* where main is
    loaded,           \* main: the Vec<Patch> load_patches returned
    started,          \* main: how many entries of patch_versions accept_patch was called for
    bind_failed,      \* the patch versions whose bind() returned an error
    cancel_token,     \* SocketCoordinator.cancel_token is cancelled
    endpoints,        \* the accept-loop tasks, in the order accept_patch spawned them
    backlog,          \* per endpoint: connections waiting to be accepted
    sessions          \* the handle_client tasks, in the order they were spawned

server_vars == <<overflow_checks, pc, loaded, started, bind_failed, cancel_token,
                 endpoints, backlog, sessions>>

vars == <<patches, query, server_vars>>

\* struct Patch { version, files }
Patch(version, files) == [version |-> version, files |-> files]

\* struct PatchFile { file, patch }
PatchFile(file, patch) == [file |-> file, patch |-> patch]

Range(s) == {s[i] : i \in DOMAIN s}

Max(S) == CHOOSE m \in S : \A x \in S : x <= m

\* The orders in which a HashSet<PathBuf> may yield its elements (the hasher is
\* seeded per set, so every enumeration without repetition is possible).
HashSetIter(S) ==
    {it \in [1..Cardinality(S) -> S] : Range(it) = S}

\* patches.iter().flat_map(|patch| patch.files.iter().cloned()).collect::<HashSet<_>>()
FlatMapFiles(ps) == UNION {ps[i].files : i \in DOMAIN ps}

\* Mutant: scans the patches from the front, so the oldest mention wins.
RECURSIVE get_latest_version_in_Forward(_, _)
get_latest_version_in_Forward(file, ps) ==
    IF ps = <<>> THEN None
    ELSE LET patch == ps[1] IN
         IF file \in patch.files THEN Some(patch.version)
         ELSE get_latest_version_in_Forward(file, Tail(ps))

RECURSIVE get_latest_version_in(_, _)
get_latest_version_in(file, ps) ==
    IF ps = <<>> THEN None
    ELSE LET patch == ps[Len(ps)] IN
         IF file \in patch.files THEN Some(patch.version)
         ELSE get_latest_version_in(file, SubSeq(ps, 1, Len(ps) - 1))

\* Mutant: the bound is exclusive (version < min_version).
RECURSIVE get_latest_version_in_up_to_Strict(_, _, _)
get_latest_version_in_up_to_Strict(file, ps, min_version) ==
    IF ps = <<>> THEN None
    ELSE LET patch == ps[Len(ps)] IN
         IF patch.version < min_version /\ file \in patch.files
         THEN Some(patch.version)
         ELSE get_latest_version_in_up_to_Strict(file, SubSeq(ps, 1, Len(ps) - 1), min_version)

RECURSIVE get_latest_version_in_up_to(_, _, _)
get_latest_version_in_up_to(file, ps, min_version) ==
    IF ps = <<>> THEN None
    ELSE LET patch == ps[Len(ps)] IN
         IF patch.version <= min_version /\ file \in patch.files
         THEN Some(patch.version)
         ELSE get_latest_version_in_up_to(file, SubSeq(ps, 1, Len(ps) - 1), min_version)

\* Mutant: map_while instead of filter_map, the collection stops at the first
\* file without a version.
FilterMapVersion_MapWhile(it, lookup) ==
    LET F[i \in 0..Len(it)] ==
            IF i = 0 THEN <<>>
            ELSE LET v == lookup[it[i]] IN
                 IF v = None \/ Len(F[i - 1]) < i - 1 THEN F[i - 1]
                 ELSE Append(F[i - 1], PatchFile(it[i], v[1]))
    IN F[Len(it)]

\* into_iter().filter_map(|file| lookup(file).map(|version| PatchFile {file, patch: version})).collect()
\* with the closure's lookup given as a function of the file.
FilterMapVersion(it, lookup) ==
    LET F[i \in 0..Len(it)] ==
            IF i = 0 THEN <<>>
            ELSE LET v == lookup[it[i]] IN
                 IF v = None THEN F[i - 1]
                 ELSE Append(F[i - 1], PatchFile(it[i], v[1]))
    IN F[Len(it)]

\* Mutant: the version to revert to is looked up in the reverted range only,
\* not in the whole catalog.
CollectDowngrade_RangeOnly(ps, current, target) ==
    LET in_range ==
            SelectSeq(ps, LAMBDA patch :
                patch.version > target /\ patch.version <= current)
        files_to_revert == FlatMapFiles(in_range)
    IN {FilterMapVersion(it, [file \in files_to_revert |->
                                 get_latest_version_in_up_to(file, in_range, target)]) :
            it \in HashSetIter(files_to_revert)}

\* The downgrade branch (current > target): the Vecs it may return.
CollectDowngrade(ps, current, target) ==
    LET files_to_revert ==
            FlatMapFiles(SelectSeq(ps, LAMBDA patch :
                patch.version > target /\ patch.version <= current))
    IN {FilterMapVersion(it, [file \in files_to_revert |->
                                 get_latest_version_in_up_to(file, ps, target)]) :
            it \in HashSetIter(files_to_revert)}

\* Mutant: the target version itself is left out of the applicable patches.
CollectUpgrade_BelowTarget(ps, current, target) ==
    LET applicable_versions ==
            SelectSeq(ps, LAMBDA patch :
                patch.version > current /\ patch.version < target)
        all_files == FlatMapFiles(applicable_versions)
    IN {FilterMapVersion(it, [file \in all_files |->
                                 get_latest_version_in(file, applicable_versions)]) :
            it \in HashSetIter(all_files)}

\* The upgrade branch (else): the Vecs it may return.
CollectUpgrade(ps, current, target) ==
    LET applicable_versions ==
            SelectSeq(ps, LAMBDA patch :
                patch.version > current /\ patch.version <= target)
        all_files == FlatMapFiles(applicable_versions)
    IN {FilterMapVersion(it, [file \in all_files |->
                                 get_latest_version_in(file, applicable_versions)]) :
            it \in HashSetIter(all_files)}

\* PatchProvider::collect_necessary_files: the set of Vec<PatchFile> a call may
\* return (one per iteration order of the intermediate HashSet).
collect_necessary_files(ps, current, target) ==
    IF current > target
    THEN CollectDowngrade(ps, current, target)
    ELSE CollectUpgrade(ps, current, target)

(***************************************************************************)
(* Resolver harness: every catalog held in ascending version order, up to  *)
(* the bounds, and every call of collect_necessary_files on it.            *)
(***************************************************************************)
IsAscending(ps) == \A i, j \in DOMAIN ps : i < j => ps[i].version <= ps[j].version

PatchPool == {Patch(v, fs) : v \in 1..MaxVersion, fs \in SUBSET FilePool}

Catalogs ==
    {ps \in UNION {[1..n -> PatchPool] : n \in 0..MaxPatches} : IsAscending(ps)}

NoQuery == [called |-> FALSE, current |-> 0, target |-> 0, result |-> <<>>]

InitResolve ==
    /\ patches \in Catalogs
    /\ query = NoQuery
    /\ overflow_checks = FALSE
    /\ pc = "wait"
    /\ loaded = patches
    /\ started = 0
    /\ bind_failed = {}
    /\ cancel_token = FALSE
    /\ endpoints = <<>>
    /\ backlog = <<>>
    /\ sessions = <<>>

Resolve ==
    \E current, target \in 0..(MaxVersion + 1) :
        \E result \in collect_necessary_files(patches, current, target) :
            /\ query' = [called |-> TRUE, current |-> current,
                         target |-> target, result |-> result]
            /\ UNCHANGED <<patches, server_vars>>

NextResolve == Resolve

SpecResolve == InitResolve /\ [][NextResolve]_vars

(***************************************************************************)
(* The server process: main, the SocketCoordinator and its accept loops,   *)
(* and the handle_client sessions.                                         *)
(***************************************************************************)

\* The patch directories ./patches may hold.
DiskPool ==
    { {Patch(3, {FileA, FileSub}), Patch(33536, {FileA, FileB})} }

\* read_dir() yields the entries in no particular order.
Listings(disk) == {l \in [1..Cardinality(disk) -> disk] : Range(l) = disk}

\* The PatchFileserver main constructs.
Fileserver == [ip |-> "127.0.0.1", host |-> "localhost", base_path |-> ""]

\* Messages of PatchProtocol as next_packet decodes them, and the two ways the
\* stream ends the loop: bytes that do not decode, and end of stream.
Msg(kind, version) == [kind |-> kind, version |-> version]
NoMsg == Msg("None", 0)
RequestVersions == {3, 33536, 65539}
ClientInputs ==
    {Msg(k, 0) : k \in {"KeepAlive", "IdentityInformation", "GatewayNoticeRequest",
                        "Undecodable", "EndOfStream"}}
        \cup {Msg("PatchRequest", v) : v \in RequestVersions}

NoResp == [type |-> "None"]
NoCall == <<>>

Session(target, token) ==
    [target |-> target, token |-> token, pc |-> "Handshaking", inbox |-> <<>>,
     cur |-> NoMsg, resp |-> NoResp, call |-> NoCall, end |-> "none"]

Endpoint(patch, port) == [patch |-> patch, port |-> port, state |-> "Starting"]

Init ==
    /\ patches = <<>>
    /\ query = NoQuery
    /\ overflow_checks \in BOOLEAN
    /\ pc = "load"
    /\ loaded = <<>>
    /\ started = 0
    /\ bind_failed = {}
    /\ cancel_token = FALSE
    /\ endpoints = <<>>
    /\ backlog = <<>>
    /\ sessions = <<>>

Running == pc \in {"load", "add", "start", "wait", "return"}

\* A task has ended: its future returned, panicked or was dropped.
Close(s, how) ==
    [s EXCEPT !.pc = "Closed", !.inbox = <<>>, !.cur = NoMsg, !.resp = NoResp,
              !.call = NoCall, !.end = how]

\* The runtime is dropped (main returned or panicked): every task still alive is
\* dropped with its sockets.
DropSessions(ss) ==
    [i \in DOMAIN ss |-> IF ss[i].pc = "Closed" THEN ss[i] ELSE Close(ss[i], "stopped")]

DropEndpoints(es) ==
    [i \in DOMAIN es |->
        IF es[i].state \in {"Starting", "Listening"}
        THEN [es[i] EXCEPT !.state = "Stopped"] ELSE es[i]]

RuntimeDrop ==
    /\ sessions' = DropSessions(sessions)
    /\ endpoints' = DropEndpoints(endpoints)
    /\ backlog' = [i \in DOMAIN backlog |-> 0]

---------------------------------------------------------------------------
\* main

\* load_patches: one Patch per directory entry, in listing order.
load_patches ==
    /\ pc = "load"
    /\ \E disk \in DiskPool : \E l \in Listings(disk) : loaded' = l
    /\ pc' = "add"
    /\ UNCHANGED <<patches, query, overflow_checks, started, bind_failed, cancel_token,
                   endpoints, backlog, sessions>>

\* load_patches: read_dir or the parse of an entry's name fails (unwrap).
load_patches_panic ==
    /\ pc = "load"
    /\ pc' = "panic_load"
    /\ UNCHANGED <<patches, query, overflow_checks, loaded, started, bind_failed,
                   cancel_token, endpoints, backlog, sessions>>

\* PatchProvider::add_patch: push, nothing else.
add_patch(ps, version, files) == Append(ps, Patch(version, files))

\* main: for patch in patches { patch_provider.add_patch(patch.version, patch.files) }
main_add_patch ==
    /\ pc = "add"
    /\ Len(patches) < Len(loaded)
    /\ LET patch == loaded[Len(patches) + 1] IN
       patches' = add_patch(patches, patch.version, patch.files)
    /\ UNCHANGED <<query, server_vars>>

\* Mutant: the coordinator is built while patches are still being added.
new_coordinator_Early ==
    /\ pc = "add"
    /\ pc' = "start"
    /\ UNCHANGED <<patches, query, overflow_checks, loaded, started, bind_failed,
                   cancel_token, endpoints, backlog, sessions>>

\* main: the catalog is complete; SocketCoordinator::new
new_coordinator ==
    /\ pc = "add"
    /\ Len(patches) = Len(loaded)
    /\ pc' = "start"
    /\ UNCHANGED <<patches, query, overflow_checks, loaded, started, bind_failed,
                   cancel_token, endpoints, backlog, sessions>>

\* let port = 32000 + patch, in u16: Some(port), or None when the build checks
\* overflow and the sum does not fit.
PortOf(patch, checks) ==
    IF PortBase + patch >= U16Modulus /\ checks
    THEN None
    ELSE Some((PortBase + patch) % U16Modulus)

BoundPorts == {endpoints[i].port : i \in DOMAIN endpoints}

\* SocketCoordinator::accept_patch, the overflow check panics main.
accept_patch_overflow ==
    /\ pc = "start"
    /\ started < Len(loaded)
    /\ PortOf(loaded[started + 1].version, overflow_checks) = None
    /\ pc' = "panic_overflow"
    /\ RuntimeDrop
    /\ UNCHANGED <<patches, query, overflow_checks, loaded, started, bind_failed,
                   cancel_token>>

\* SocketCoordinator::accept_patch, bind() fails (the port is taken by this or
\* another process) and unwrap panics main.
accept_patch_bind_error ==
    /\ pc = "start"
    /\ started < Len(loaded)
    /\ LET patch == loaded[started + 1].version IN
       /\ PortOf(patch, overflow_checks) # None
       /\ bind_failed' = bind_failed \cup {patch}
    /\ pc' = "panic_bind"
    /\ RuntimeDrop
    /\ UNCHANGED <<patches, query, overflow_checks, loaded, started, cancel_token>>

\* SocketCoordinator::accept_patch, bind() succeeds: the accept loop is spawned.
accept_patch ==
    /\ pc = "start"
    /\ started < Len(loaded)
    /\ LET patch == loaded[started + 1].version
           port == PortOf(patch, overflow_checks)
       IN /\ port # None
          /\ port[1] \notin BoundPorts
          /\ endpoints' = Append(endpoints, Endpoint(patch, port[1]))
    /\ backlog' = Append(backlog, 0)
    /\ started' = started + 1
    /\ UNCHANGED <<patches, query, overflow_checks, pc, loaded, bind_failed,
                   cancel_token, sessions>>

\* main: every endpoint is started; signal::ctrl_c().await
await_ctrl_c ==
    /\ pc = "start"
    /\ started = Len(loaded)
    /\ pc' = "wait"
    /\ UNCHANGED <<patches, query, overflow_checks, loaded, started, bind_failed,
                   cancel_token, endpoints, backlog, sessions>>

\* Mutant: the sessions' tokens are not children of the master token.
CancelChildren_Detached(ss) == ss

\* CancellationToken::cancel on the master token cancels every child token (a
\* task that has ended has dropped its token).
CancelChildren(ss) ==
    [i \in DOMAIN ss |->
        IF ss[i].pc = "Closed" THEN ss[i] ELSE [ss[i] EXCEPT !.token = TRUE]]

\* The interrupt signal arrives, ctrl_c() completes: SocketCoordinator::shutdown
shutdown ==
    /\ pc = "wait"
    /\ cancel_token' = TRUE
    /\ sessions' = CancelChildren(sessions)
    /\ pc' = "return"
    /\ UNCHANGED <<patches, query, overflow_checks, loaded, started, bind_failed,
                   endpoints, backlog>>

\* Mutant: main goes back to waiting for the signal instead of returning.
main_return_AwaitAgain ==
    /\ pc = "return"
    /\ pc' = "wait"
    /\ UNCHANGED <<patches, query, overflow_checks, loaded, started, bind_failed,
                   cancel_token, endpoints, backlog, sessions>>

\* main returns: the runtime is dropped and the process exits.
main_return ==
    /\ pc = "return"
    /\ pc' = "exited"
    /\ RuntimeDrop
    /\ UNCHANGED <<patches, query, overflow_checks, loaded, started, bind_failed,
                   cancel_token>>

---------------------------------------------------------------------------
\* The accept loop of one endpoint (the task accept_patch spawns).

\* A client connects to a listening endpoint.
client_connect(e) ==
    /\ Running
    /\ endpoints[e].state = "Listening"
    /\ LET Sum[i \in 0..Len(backlog)] == IF i = 0 THEN 0 ELSE Sum[i - 1] + backlog[i]
       IN Sum[Len(backlog)] < MaxPending
    /\ backlog' = [backlog EXCEPT ![e] = @ + 1]
    /\ UNCHANGED <<patches, query, overflow_checks, pc, loaded, started, bind_failed,
                   cancel_token, endpoints, sessions>>

\* result.listen(5).unwrap()
endpoint_listen(e) ==
    /\ Running
    /\ endpoints[e].state = "Starting"
    /\ \E ok \in BOOLEAN :
          endpoints' = [endpoints EXCEPT ![e].state = IF ok THEN "Listening" ELSE "Errored"]
    /\ UNCHANGED <<patches, query, overflow_checks, pc, loaded, started, bind_failed,
                   cancel_token, backlog, sessions>>

\* select! polls its branches in random order: the accept branch yields
\* Some(res) whenever a connection is waiting, whether or not the token is
\* cancelled.
AcceptBranchReady(e) == backlog[e] > 0

\* select!: the cancelled() branch yields None once the token is cancelled.
CancelBranchReady(token) == token

\* The loop body: the session task is spawned with a child token.
endpoint_accept(e) ==
    /\ Running
    /\ endpoints[e].state = "Listening"
    /\ AcceptBranchReady(e)
    /\ Len(sessions) < MaxSessions
    /\ backlog' = [backlog EXCEPT ![e] = @ - 1]
    /\ sessions' = Append(sessions, Session(endpoints[e].patch, cancel_token))
    /\ UNCHANGED <<patches, query, overflow_checks, pc, loaded, started, bind_failed,
                   cancel_token, endpoints>>

\* Mutant: the failing accept loop takes the sessions it spawned down with it.
endpoint_accept_error_DropSessions(e) ==
    /\ Running
    /\ endpoints[e].state = "Listening"
    /\ endpoints' = [endpoints EXCEPT ![e].state = "Errored"]
    /\ backlog' = [backlog EXCEPT ![e] = 0]
    /\ sessions' = [i \in DOMAIN sessions |->
                        IF sessions[i].target = endpoints[e].patch /\ sessions[i].pc # "Closed"
                        THEN Close(sessions[i], "stopped") ELSE sessions[i]]
    /\ UNCHANGED <<patches, query, overflow_checks, pc, loaded, started, bind_failed,
                   cancel_token>>

\* accept() returns Err: while let Some(Ok(..)) does not match, the loop ends.
endpoint_accept_error(e) ==
    /\ Running
    /\ endpoints[e].state = "Listening"
    /\ endpoints' = [endpoints EXCEPT ![e].state = "Errored"]
    /\ backlog' = [backlog EXCEPT ![e] = 0]
    /\ UNCHANGED <<patches, query, overflow_checks, pc, loaded, started, bind_failed,
                   cancel_token, sessions>>

\* select! yields None: the loop ends.
endpoint_cancelled(e) ==
    /\ Running
    /\ endpoints[e].state = "Listening"
    /\ CancelBranchReady(cancel_token)
    /\ endpoints' = [endpoints EXCEPT ![e].state = "Cancelled"]
    /\ backlog' = [backlog EXCEPT ![e] = 0]
    /\ UNCHANGED <<patches, query, overflow_checks, pc, loaded, started, bind_failed,
                   cancel_token, sessions>>

---------------------------------------------------------------------------
\* handle_client: one session task.

\* Path::parent: None only for the empty path (a relative path never ends in a
\* root); the parent of a single component is the empty path.
Parent(file) ==
    IF file = <<>> THEN None ELSE Some(SubSeq(file, 1, Len(file) - 1))

\* Path::file_name
FileName(file) == file[Len(file)]

\* get_filesize_of: the length of patch_dir/<patch>/<file> on disk.
get_filesize_of(file) == 16 * Len(file.file) + (file.patch % 16)

\* Mutant: the file ids count from one.
BuildPatchFiles_OneBased(resolved) ==
    [i \in DOMAIN resolved |->
        [file_id |-> i,
         filename |-> FileName(resolved[i].file),
         file_path |-> <<Fileserver.base_path, resolved[i].patch>> \o resolved[i].file,
         size |-> get_filesize_of(resolved[i]),
         in_pk2 |-> Parent(resolved[i].file) # None]]

\* patches.into_iter().enumerate().map(..).collect(): one protocol::PatchFile
\* per resolved file, file_path being format!("{}/{}/{}", base_path, patch, file):
\* the '/'-separated pieces of the string, in order.
BuildPatchFiles(resolved) ==
    [i \in DOMAIN resolved |->
        [file_id |-> i - 1,
         filename |-> FileName(resolved[i].file),
         file_path |-> <<Fileserver.base_path, resolved[i].patch>> \o resolved[i].file,
         size |-> get_filesize_of(resolved[i]),
         in_pk2 |-> Parent(resolved[i].file) # None]]

UpToDate == [type |-> "PatchResponse", result |-> "UpToDate", unknown |-> 0]

Update(target_version, resolved) ==
    [type |-> "PatchResponse", result |-> "Problem", error |-> "Update",
     server_ip |-> Fileserver.ip, server_port |-> ServerPort,
     current_version |-> target_version,
     patch_files |-> BuildPatchFiles(resolved),
     http_server |-> Fileserver.host]

\* current_version == target_version.into(), compared as u32
IsUpToDate(version, target_version) == version = target_version

\* Mutant: the up-to-date short cut is missing, every request is resolved.
HandlePatchRequest_AlwaysResolve(version, target_version, ps) ==
    LET current == version % U16Modulus IN
    {[resp |-> Update(target_version, resolved),
      call |-> <<current, target_version>>] :
         resolved \in collect_necessary_files(ps, current, target_version)}

\* The PatchRequest arm: the responses it may build, each with the resolver
\* call made for it (current_version as u16 keeps the low 16 bits).
HandlePatchRequest(version, target_version, ps) ==
    IF IsUpToDate(version, target_version)
    THEN {[resp |-> UpToDate, call |-> NoCall]}
    ELSE LET current == version % U16Modulus IN
         {[resp |-> Update(target_version, resolved),
           call |-> <<current, target_version>>] :
              resolved \in collect_necessary_files(ps, current, target_version)}

IdentityResponse ==
    [type |-> "IdentityInformation", module_name |-> "GatewayServer",
     locality |-> Locality]

NoticeResponse == [type |-> "GatewayNoticeResponse", notices |-> <<>>]

\* Mutant: the fault takes down every session accepted on the same endpoint.
SessionFault_Endpoint(ss, s) ==
    [i \in DOMAIN ss |->
        IF ss[i].target = ss[s].target /\ ss[i].pc # "Closed"
        THEN Close(ss[i], "fault") ELSE ss[i]]

\* An unwrap panics inside the session's task, or the message loop ends on an
\* Err: the task ends, alone.
SessionFault(ss, s) == [ss EXCEPT ![s] = Close(ss[s], "fault")]

\* The client writes a message, garbage, or closes its side.
client_send(s) ==
    /\ Running
    /\ sessions[s].pc \in {"Serving", "Writing"}
    /\ Len(sessions[s].inbox) + (IF sessions[s].pc = "Writing" THEN 1 ELSE 0) < MaxInFlight
    /\ \A i \in DOMAIN sessions[s].inbox : sessions[s].inbox[i].kind # "EndOfStream"
    /\ \E m \in ClientInputs :
          sessions' = [sessions EXCEPT ![s].inbox = Append(@, m)]
    /\ UNCHANGED <<patches, query, overflow_checks, pc, loaded, started, bind_failed,
                   cancel_token, endpoints, backlog>>

\* ActiveSecuritySetup::handle(..).await succeeds.
session_handshake(s) ==
    /\ Running
    /\ sessions[s].pc = "Handshaking"
    /\ sessions' = [sessions EXCEPT ![s].pc = "Serving"]
    /\ UNCHANGED <<patches, query, overflow_checks, pc, loaded, started, bind_failed,
                   cancel_token, endpoints, backlog>>

\* ActiveSecuritySetup::handle(..).await.unwrap() panics.
session_handshake_error(s) ==
    /\ Running
    /\ sessions[s].pc = "Handshaking"
    /\ sessions' = SessionFault(sessions, s)
    /\ UNCHANGED <<patches, query, overflow_checks, pc, loaded, started, bind_failed,
                   cancel_token, endpoints, backlog>>

\* select!: the next_packet branch yields Some(p) when input is waiting.
PacketBranchReady(s) == sessions[s].inbox # <<>>

\* next_packet yields Err (undecodable bytes, end of stream): the loop ends.
session_recv_error(s) ==
    /\ Running
    /\ sessions[s].pc = "Serving"
    /\ PacketBranchReady(s)
    /\ Head(sessions[s].inbox).kind \in {"Undecodable", "EndOfStream"}
    /\ sessions' = SessionFault(sessions, s)
    /\ UNCHANGED <<patches, query, overflow_checks, pc, loaded, started, bind_failed,
                   cancel_token, endpoints, backlog>>

\* PatchProtocol::KeepAlive(_) => {}
session_keep_alive(s) ==
    /\ Running
    /\ sessions[s].pc = "Serving"
    /\ PacketBranchReady(s)
    /\ Head(sessions[s].inbox).kind = "KeepAlive"
    /\ sessions' = [sessions EXCEPT ![s].inbox = Tail(@)]
    /\ UNCHANGED <<patches, query, overflow_checks, pc, loaded, started, bind_failed,
                   cancel_token, endpoints, backlog>>

\* Mutant: the message handled is the one that arrived last.
session_request_Newest(s) ==
    /\ Running
    /\ sessions[s].pc = "Serving"
    /\ PacketBranchReady(s)
    /\ LET inbox == sessions[s].inbox
           packet == inbox[Len(inbox)]
           Answer(resp, call) ==
               sessions' = [sessions EXCEPT ![s].pc = "Writing",
                                            ![s].inbox = SubSeq(inbox, 1, Len(inbox) - 1),
                                            ![s].cur = packet, ![s].resp = resp,
                                            ![s].call = call]
       IN \/ /\ packet.kind = "PatchRequest"
             /\ \E o \in HandlePatchRequest(packet.version, sessions[s].target, patches) :
                   Answer(o.resp, o.call)
          \/ /\ packet.kind = "IdentityInformation"
             /\ Answer(IdentityResponse, NoCall)
          \/ /\ packet.kind = "GatewayNoticeRequest"
             /\ Answer(NoticeResponse, NoCall)
    /\ UNCHANGED <<patches, query, overflow_checks, pc, loaded, started, bind_failed,
                   cancel_token, endpoints, backlog>>

\* The three arms that answer: the response is built and write_packet awaited.
session_request(s) ==
    /\ Running
    /\ sessions[s].pc = "Serving"
    /\ PacketBranchReady(s)
    /\ LET packet == Head(sessions[s].inbox)
           Answer(resp, call) ==
               sessions' = [sessions EXCEPT ![s].pc = "Writing", ![s].inbox = Tail(@),
                                            ![s].cur = packet, ![s].resp = resp,
                                            ![s].call = call]
       IN \/ /\ packet.kind = "PatchRequest"
             /\ \E o \in HandlePatchRequest(packet.version, sessions[s].target, patches) :
                   Answer(o.resp, o.call)
          \/ /\ packet.kind = "IdentityInformation"
             /\ Answer(IdentityResponse, NoCall)
          \/ /\ packet.kind = "GatewayNoticeRequest"
             /\ Answer(NoticeResponse, NoCall)
    /\ UNCHANGED <<patches, query, overflow_checks, pc, loaded, started, bind_failed,
                   cancel_token, endpoints, backlog>>

\* write_packet(..).await completes: back to the select!.
session_write(s) ==
    /\ Running
    /\ sessions[s].pc = "Writing"
    /\ sessions' = [sessions EXCEPT ![s].pc = "Serving", ![s].cur = NoMsg,
                                    ![s].resp = NoResp, ![s].call = NoCall]
    /\ UNCHANGED <<patches, query, overflow_checks, pc, loaded, started, bind_failed,
                   cancel_token, endpoints, backlog>>

\* write_packet(..).await.unwrap() panics.
session_write_error(s) ==
    /\ Running
    /\ sessions[s].pc = "Writing"
    /\ sessions' = SessionFault(sessions, s)
    /\ UNCHANGED <<patches, query, overflow_checks, pc, loaded, started, bind_failed,
                   cancel_token, endpoints, backlog>>

\* select! yields None (child_token.cancelled()): the loop ends.
session_cancelled(s) ==
    /\ Running
    /\ sessions[s].pc = "Serving"
    /\ CancelBranchReady(sessions[s].token)
    /\ sessions' = [sessions EXCEPT ![s] = Close(@, "stopped")]
    /\ UNCHANGED <<patches, query, overflow_checks, pc, loaded, started, bind_failed,
                   cancel_token, endpoints, backlog>>

---------------------------------------------------------------------------
Next ==
    \/ load_patches
    \/ load_patches_panic
    \/ main_add_patch
    \/ new_coordinator
    \/ accept_patch_overflow
    \/ accept_patch_bind_error
    \/ accept_patch
    \/ await_ctrl_c
    \/ shutdown
    \/ main_return
    \/ \E e \in DOMAIN endpoints : client_connect(e)
    \/ \E e \in DOMAIN endpoints : endpoint_listen(e)
    \/ \E e \in DOMAIN endpoints : endpoint_accept(e)
    \/ \E e \in DOMAIN endpoints : endpoint_accept_error(e)
    \/ \E e \in DOMAIN endpoints : endpoint_cancelled(e)
    \/ \E s \in DOMAIN sessions : client_send(s)
    \/ \E s \in DOMAIN sessions : session_handshake(s)
    \/ \E s \in DOMAIN sessions : session_handshake_error(s)
    \/ \E s \in DOMAIN sessions : session_recv_error(s)
    \/ \E s \in DOMAIN sessions : session_keep_alive(s)
    \/ \E s \in DOMAIN sessions : session_request(s)
    \/ \E s \in DOMAIN sessions : session_write(s)
    \/ \E s \in DOMAIN sessions : session_write_error(s)
    \/ \E s \in DOMAIN sessions : session_cancelled(s)

Spec == Init /\ [][Next]_vars

\* The scheduler polls a task that was woken, and main runs on once ctrl_c()
\* has completed; the arrival of the signal and of client input is not assumed.
Fairness ==
    /\ WF_vars(main_return)
    /\ \A e \in 1..Max({Cardinality(disk) : disk \in DiskPool}) :
          WF_vars(e \in DOMAIN endpoints /\ ~AcceptBranchReady(e) /\ endpoint_cancelled(e))
    /\ \A s \in 1..(MaxSessions + 1) :
          WF_vars(s \in DOMAIN sessions /\ ~PacketBranchReady(s) /\ session_cancelled(s))

FairSpec == Init /\ [][Next]_vars /\ Fairness

(***************************************************************************)
(* One session with a client that writes ahead of the answers: the server   *)
(* as it stands once main awaits the signal (a build without overflow       *)
(* checks, every endpoint listening), and one accepted session past its     *)
(* handshake.                                                               *)
(***************************************************************************)
InitSession ==
    /\ overflow_checks = FALSE
    /\ \E disk \in DiskPool : loaded \in Listings(disk)
    /\ patches = loaded
    /\ query = NoQuery
    /\ pc = "wait"
    /\ started = Len(loaded)
    /\ bind_failed = {}
    /\ cancel_token = FALSE
    /\ endpoints = [i \in DOMAIN loaded |->
                       [Endpoint(loaded[i].version, PortOf(loaded[i].version, FALSE)[1])
                            EXCEPT !.state = "Listening"]]
    /\ backlog = [i \in DOMAIN loaded |-> 0]
    /\ \E e \in DOMAIN loaded :
          sessions = <<[Session(loaded[e].version, FALSE) EXCEPT !.pc = "Serving"]>>

\* The client writes up to MaxPipeline messages without waiting for answers.
client_send_ahead(s) ==
    /\ Running
    /\ sessions[s].pc \in {"Serving", "Writing"}
    /\ Len(sessions[s].inbox) + (IF sessions[s].pc = "Writing" THEN 1 ELSE 0) < MaxPipeline
    /\ \A i \in DOMAIN sessions[s].inbox : sessions[s].inbox[i].kind # "EndOfStream"
    /\ \E m \in ClientInputs :
          sessions' = [sessions EXCEPT ![s].inbox = Append(@, m)]
    /\ UNCHANGED <<patches, query, overflow_checks, pc, loaded, started, bind_failed,
                   cancel_token, endpoints, backlog>>

NextSession ==
    \/ shutdown
    \/ main_return
    \/ \E e \in DOMAIN endpoints : endpoint_cancelled(e)
    \/ \E s \in DOMAIN sessions : client_send_ahead(s)
    \/ \E s \in DOMAIN sessions : session_recv_error(s)
    \/ \E s \in DOMAIN sessions : session_keep_alive(s)
    \/ \E s \in DOMAIN sessions : session_request(s)
    \/ \E s \in DOMAIN sessions : session_write(s)
    \/ \E s \in DOMAIN sessions : session_write_error(s)
    \/ \E s \in DOMAIN sessions : session_cancelled(s)

SpecSession == InitSession /\ [][NextSession]_vars

(***************************************************************************)
(* Properties of the resolver.                                             *)
(***************************************************************************)
\* The indices of the result's entries for a file.
EntriesOf(result, file) == {i \in DOMAIN result : result[i].file = file}

\* The versions of the patches with lo < version <= hi that mention the file.
MentionsIn(ps, file, lo, hi) ==
    {ps[i].version : i \in {j \in DOMAIN ps :
        ps[j].version > lo /\ ps[j].version <= hi /\ file \in ps[j].files}}

\* The files mentioned by some patch with lo < version <= hi.
TouchedIn(ps, lo, hi) == {f \in FilePool : MentionsIn(ps, f, lo, hi) # {}}

\* C1: upgrade (current < target) on an ascending catalog: every file mentioned
\* by a patch with current < version <= target has exactly one entry in the
\* result, whose source version is the highest such patch version mentioning
\* it; no other file has an entry.
C1_UpgradeResult ==
    (query.called /\ query.current < query.target) =>
        /\ \A f \in TouchedIn(patches, query.current, query.target) :
              /\ Cardinality(EntriesOf(query.result, f)) = 1
              /\ \A i \in EntriesOf(query.result, f) :
                    query.result[i].patch =
                        Max(MentionsIn(patches, f, query.current, query.target))
        /\ \A i \in DOMAIN query.result :
              query.result[i].file \in TouchedIn(patches, query.current, query.target)

\* An upgrade over a range in which one file is mentioned by patches of two
\* different versions, and another file by none.
C1_Witness ==
    /\ query.called /\ query.current < query.target
    /\ \E f \in FilePool :
          Cardinality(MentionsIn(patches, f, query.current, query.target)) >= 2
    /\ \E f \in FlatMapFiles(patches) :
          f \notin TouchedIn(patches, query.current, query.target)
    /\ Len(query.result) >= 1

\* C2: downgrade (target < current) on an ascending catalog: every file
\* mentioned by a patch with target < version <= current either has exactly one
\* entry, whose source version is the highest patch version <= target in the
\* whole catalog mentioning it, or has no entry when no patch with
\* version <= target mentions it; no file outside that set has an entry.
C2_DowngradeResult ==
    (query.called /\ query.target < query.current) =>
        /\ \A f \in TouchedIn(patches, query.target, query.current) :
              LET earlier == MentionsIn(patches, f, -1, query.target) IN
              IF earlier = {}
              THEN EntriesOf(query.result, f) = {}
              ELSE /\ Cardinality(EntriesOf(query.result, f)) = 1
                   /\ \A i \in EntriesOf(query.result, f) :
                         query.result[i].patch = Max(earlier)
        /\ \A i \in DOMAIN query.result :
              query.result[i].file \in TouchedIn(patches, query.target, query.current)

\* A downgrade in which one reverted file has an earlier copy among several
\* patches at or below the target and another reverted file has none.
C2_Witness ==
    /\ query.called /\ query.target < query.current
    /\ \E f \in TouchedIn(patches, query.target, query.current) :
          /\ Cardinality(MentionsIn(patches, f, -1, query.target)) >= 2
          /\ EntriesOf(query.result, f) # {}
    /\ \E f \in TouchedIn(patches, query.target, query.current) :
          /\ MentionsIn(patches, f, -1, query.target) = {}
          /\ EntriesOf(query.result, f) = {}

\* The catalog of scenarios A and B: {1: [a.txt]}, {2: [a.txt, b.txt]}, {3: [b.txt]}.
ScenarioCatalog ==
    <<Patch(1, {FileA}), Patch(2, {FileA, FileB}), Patch(3, {FileB})>>

ScenarioCall(current, target) ==
    /\ patches = ScenarioCatalog
    /\ query.called /\ query.current = current /\ query.target = target

\* C3 as stated: on the scenario catalog, resolving current=1 to target=3
\* returns exactly {a.txt@1, b.txt@3}.
C3_ScenarioA_AsStated ==
    ScenarioCall(1, 3) =>
        Range(query.result) = {PatchFile(FileA, 1), PatchFile(FileB, 3)}

\* C3 (amended): on the scenario catalog, resolving current=1 to target=3
\* returns exactly the two entries a.txt@2 and b.txt@3.
C3_ScenarioA ==
    ScenarioCall(1, 3) =>
        /\ Range(query.result) = {PatchFile(FileA, 2), PatchFile(FileB, 3)}
        /\ Len(query.result) = 2

C3_Witness == ScenarioCall(1, 3)

\* C4 as stated: on the scenario catalog, resolving current=3 to target=1
\* returns the empty set.
C4_ScenarioB_AsStated ==
    ScenarioCall(3, 1) => query.result = <<>>

\* C4 (amended): on the scenario catalog, resolving current=3 to target=1
\* returns exactly one entry, a.txt@1 (b.txt, which no patch at or below
\* version 1 mentions, has no entry).
C4_ScenarioB ==
    ScenarioCall(3, 1) => query.result = <<PatchFile(FileA, 1)>>

C4_Witness == ScenarioCall(3, 1)

(***************************************************************************)
(* Properties of the sessions and of the coordinator.                      *)
(***************************************************************************)

\* The session is writing its answer to a PatchRequest whose version is the
\* target version of its endpoint.
AnsweringOwnVersion(s) ==
    /\ sessions[s].pc = "Writing"
    /\ sessions[s].cur.kind = "PatchRequest"
    /\ sessions[s].cur.version = sessions[s].target

\* C5: a PatchRequest whose version equals the target version of the session's
\* endpoint is answered with a PatchResponse carrying UpToDate with unknown = 0,
\* and collect_necessary_files is not called for it.
C5_UpToDate ==
    \A s \in DOMAIN sessions :
        AnsweringOwnVersion(s) =>
            /\ sessions[s].resp.type = "PatchResponse"
            /\ sessions[s].resp.result = "UpToDate"
            /\ sessions[s].resp.unknown = 0
            /\ sessions[s].call = <<>>

C5_Witness ==
    \E s \in DOMAIN sessions :
        AnsweringOwnVersion(s) /\ sessions[s].resp.result = "UpToDate"

\* C6 as stated: once shutdown() has cancelled the master token, no accept loop
\* accepts a further connection and no new session task is spawned.
C6_NoAcceptAfterShutdown ==
    [][cancel_token => Len(sessions') = Len(sessions)]_vars

\* Scenario D: shutdown has fired while several sessions are in Serving, each
\* waiting in select! with no input from its client.
WaitingSessions ==
    {s \in DOMAIN sessions : sessions[s].pc = "Serving" /\ sessions[s].inbox = <<>>}

ScenarioD == cancel_token /\ pc = "return" /\ Cardinality(WaitingSessions) >= 2

AllClosedAndExited ==
    /\ pc = "exited"
    /\ \A s \in DOMAIN sessions : sessions[s].pc = "Closed"

\* C7: if shutdown fires while several sessions are each waiting for their next
\* message, then under fair scheduling every session reaches Closed and the
\* process exits, whatever the clients do.
C7_ShutdownClosesSessions == ScenarioD ~> AllClosedAndExited

C7_Witness == ScenarioD

\* C8 as stated: for every u16 patch version the port is 32000 + version,
\* computed without overflow, and distinct versions get distinct ports.
C8_PortIsBasePlusVersion ==
    /\ pc # "panic_overflow"
    /\ \A e \in DOMAIN endpoints : endpoints[e].port = PortBase + endpoints[e].patch
    /\ \A e, f \in DOMAIN endpoints :
          endpoints[e].patch # endpoints[f].patch => endpoints[e].port # endpoints[f].port

\* C9 as stated: when the bind of one version fails the process keeps running,
\* the endpoints and sessions that exist are untouched, and main goes on to the
\* next version.
C9_BindFailureIsLocal ==
    [][bind_failed' # bind_failed =>
          /\ pc' = "start"
          /\ started' = started + 1
          /\ endpoints' = endpoints
          /\ sessions' = sessions]_vars

\* C10: a handshake failure, decode failure, end of stream or write failure
\* ends the session it happens in and nothing else: every other session, the
\* endpoints, the master token and main are as they were; and a closed session
\* never runs again.
C10_SessionFaultIsLocal ==
    [][\A s \in DOMAIN sessions :
          /\ (sessions[s].pc # "Closed" /\ sessions'[s].pc = "Closed"
                  /\ sessions'[s].end = "fault") =>
                /\ DOMAIN sessions' = DOMAIN sessions
                /\ \A t \in DOMAIN sessions \ {s} : sessions'[t] = sessions[t]
                /\ UNCHANGED <<endpoints, backlog, cancel_token, pc, started, patches>>
          /\ sessions[s].pc = "Closed" => sessions'[s] = sessions[s]]_vars

\* A session has ended on a fault while another session is serving and an
\* endpoint is listening.
C10_Witness ==
    /\ \E s, t \in DOMAIN sessions :
          /\ sessions[s].pc = "Closed" /\ sessions[s].end = "fault"
          /\ sessions[t].pc \in {"Serving", "Writing"}
    /\ \E e \in DOMAIN endpoints : endpoints[e].state = "Listening"
    /\ pc = "wait"

(***************************************************************************)
(* Further properties of the resolver and of the catalog.                  *)
(***************************************************************************)

\* C11: two calls of collect_necessary_files with the same current and target
\* return the same set of (file, source version) entries, with as many
\* entries, and a call leaves the catalog as it was.
C11_Idempotent ==
    [][(query'.called /\ patches' = patches) /\
       ((query.called /\ query'.current = query.current
            /\ query'.target = query.target) =>
          /\ Range(query'.result) = Range(query.result)
          /\ Len(query'.result) = Len(query.result))]_vars

\* A downgrade was answered with at least one entry while another reverted
\* file, which has no copy at or below the target, was left out.
C11_Witness ==
    /\ query.called /\ query.current > query.target
    /\ Len(query.result) >= 1
    /\ \E f \in TouchedIn(patches, query.target, query.current) :
          EntriesOf(query.result, f) = {}

\* C12 as stated: once main has added every loaded patch, the catalog is sorted
\* by version, strictly ascending, and stays so.
C12_CatalogSorted ==
    pc \notin {"load", "add", "panic_load"} =>
        \A i, j \in DOMAIN patches : i < j => patches[i].version < patches[j].version

\* The session is writing its answer to a PatchRequest whose version differs
\* from the target version of its endpoint.
AnsweringOtherVersion(s) ==
    /\ sessions[s].pc = "Writing"
    /\ sessions[s].cur.kind = "PatchRequest"
    /\ sessions[s].cur.version # sessions[s].target

\* C13 as stated: whenever handle_client calls collect_necessary_files, the
\* current argument differs from the target argument.
C13_ResolverArgsDiffer ==
    \A s \in DOMAIN sessions :
        sessions[s].call # NoCall => sessions[s].call[1] # sessions[s].call[2]

SessionsAllClosed == \A s \in DOMAIN sessions : sessions[s].pc = "Closed"

\* C14: once the master token is cancelled, every session that has not ended,
\* whether it existed at shutdown() or was spawned after it, and whether it is
\* handshaking, waiting for a message or handling one, has its child token
\* cancelled; and under fair scheduling all sessions reach Closed and the
\* process ends, whatever the clients do.
C14_CancelReachesEverySession ==
    /\ [](cancel_token =>
            \A s \in DOMAIN sessions : sessions[s].pc # "Closed" => sessions[s].token)
    /\ cancel_token ~> (SessionsAllClosed /\ ~Running)

\* Shutdown has fired while one session is handshaking and another is writing
\* a response.
C14_Witness ==
    /\ cancel_token /\ pc = "return"
    /\ \E s, t \in DOMAIN sessions :
          /\ sessions[s].pc = "Handshaking" /\ sessions[s].token
          /\ sessions[t].pc = "Writing" /\ sessions[t].token

\* C15: a session is spawned only by an endpoint that is Listening; an endpoint
\* whose accept fails becomes Errored and stays so, no second endpoint is
\* created for its version, and in the step of the failure every other
\* endpoint and every session is as it was.
C15_EndpointLifecycle ==
    [][/\ Len(sessions') > Len(sessions) =>
             \E e \in DOMAIN endpoints :
                /\ endpoints[e].state = "Listening"
                /\ endpoints'[e].state = "Listening"
                /\ sessions'[Len(sessions')].target = endpoints[e].patch
       /\ Len(endpoints') > Len(endpoints) =>
             \A e \in DOMAIN endpoints :
                endpoints'[Len(endpoints')].patch # endpoints[e].patch
       /\ \A e \in DOMAIN endpoints :
             /\ endpoints[e].state = "Errored" => endpoints'[e] = endpoints[e]
             /\ (endpoints[e].state = "Listening" /\ endpoints'[e].state = "Errored") =>
                   /\ \A f \in DOMAIN endpoints \ {e} : endpoints'[f] = endpoints[f]
                   /\ Len(endpoints') = Len(endpoints)
                   /\ sessions' = sessions]_vars

\* An endpoint has failed while the other one is listening and a session the
\* failed endpoint spawned is serving.
C15_Witness ==
    \E e, f \in DOMAIN endpoints :
        /\ endpoints[e].state = "Errored"
        /\ endpoints[f].state = "Listening"
        /\ \E s \in DOMAIN sessions :
              /\ sessions[s].target = endpoints[e].patch
              /\ sessions[s].pc = "Serving"

\* C16: within a session the message handled is the one that arrived first
\* and nothing is read while a response is being written; an identity request
\* is answered with the static identity record, a notice request with an empty
\* notice list, a patch request with a PatchResponse, each once; a keep-alive
\* is consumed with no response and no other change to the session.
C16_InOrderOneAtATime ==
    [][\A s \in DOMAIN sessions :
          LET a == sessions[s]
              b == sessions'[s]
          IN /\ \/ b.inbox = a.inbox
                \/ \E m \in ClientInputs : b.inbox = Append(a.inbox, m)
                \/ b.pc = "Closed"
                \/ a.pc = "Serving" /\ a.inbox # <<>> /\ b.inbox = Tail(a.inbox)
             /\ (a.pc = "Serving" /\ b.pc = "Writing") =>
                   /\ a.inbox # <<>>
                   /\ b.cur = Head(a.inbox)
                   /\ b.inbox = Tail(a.inbox)
                   /\ CASE b.cur.kind = "IdentityInformation" -> b.resp = IdentityResponse
                        [] b.cur.kind = "GatewayNoticeRequest" ->
                              b.resp.type = "GatewayNoticeResponse" /\ b.resp.notices = <<>>
                        [] b.cur.kind = "PatchRequest" -> b.resp.type = "PatchResponse"
                        [] OTHER -> FALSE
             /\ a.pc = "Writing" =>
                   \/ b.pc = "Closed"
                   \/ /\ b.pc = "Serving" /\ b.resp = NoResp /\ b.cur = NoMsg
                      /\ b.inbox = a.inbox
                   \/ /\ b.pc = "Writing" /\ b.resp = a.resp /\ b.cur = a.cur
                      /\ Len(b.inbox) >= Len(a.inbox)
             /\ b.pc = "Writing" => a.pc \in {"Serving", "Writing"}
             /\ (a.pc = "Serving" /\ a.inbox # <<>> /\ Head(a.inbox).kind = "KeepAlive"
                    /\ b.pc # "Closed" /\ b.inbox # a.inbox
                    /\ Len(b.inbox) <= Len(a.inbox)) =>
                   b = [a EXCEPT !.inbox = Tail(@)]
             /\ (a.pc = "Serving" /\ a.inbox # <<>> /\ Head(a.inbox).kind = "KeepAlive") =>
                   b.pc # "Writing"]_vars

\* A patch request is being answered while a later message waits unread.
C16_Witness ==
    \E s \in DOMAIN sessions :
        /\ sessions[s].pc = "Writing"
        /\ sessions[s].cur.kind = "PatchRequest"
        /\ sessions[s].inbox # <<>>
        /\ Head(sessions[s].inbox).kind = "IdentityInformation"

\* C17: the response to a PatchRequest whose version differs from the
\* endpoint's target is an Update carrying the target as current_version and
\* one PatchFile per entry of the resolver's result, in the result's order:
\* the i-th has file id i - 1 and the path base_path/source version/relative
\* file path of the i-th entry.
C17_UpdateShape ==
    \A s \in DOMAIN sessions :
        AnsweringOtherVersion(s) =>
            LET resp == sessions[s].resp
                call == sessions[s].call
            IN /\ resp.type = "PatchResponse"
               /\ resp.result = "Problem"
               /\ resp.error = "Update"
               /\ resp.current_version = sessions[s].target
               /\ call # NoCall
               /\ \E resolved \in collect_necessary_files(patches, call[1], call[2]) :
                     /\ DOMAIN resp.patch_files = DOMAIN resolved
                     /\ \A i \in DOMAIN resolved :
                           /\ resp.patch_files[i].file_id = i - 1
                           /\ resp.patch_files[i].file_path =
                                 <<Fileserver.base_path, resolved[i].patch>>
                                     \o resolved[i].file
               /\ \A i, j \in DOMAIN resp.patch_files :
                     i # j => resp.patch_files[i].file_id # resp.patch_files[j].file_id

\* An Update with two files is being written.
C17_Witness ==
    \E s \in DOMAIN sessions :
        /\ AnsweringOtherVersion(s)
        /\ Len(sessions[s].resp.patch_files) = 2
        /\ sessions[s].resp.patch_files[2].file_id = 1

\* C18 as stated: in every PatchFile of an Update response, in_pk2 is true
\* exactly when the resolved file's relative path has a directory component
\* before the file name (the path is longer than base_path/version/name), and
\* false for a file at the top of its patch directory.
C18_InPk2IffSubdirectory ==
    \A s \in DOMAIN sessions :
        AnsweringOtherVersion(s) =>
            \A i \in DOMAIN sessions[s].resp.patch_files :
                LET f == sessions[s].resp.patch_files[i]
                IN f.in_pk2 <=> (Len(f.file_path) > 3)

\* C19: the catalog is written only while no endpoint and no session exists;
\* once one exists the catalog holds every loaded patch and no step changes it.
C19_CatalogWriteOnce ==
    [][/\ (endpoints # <<>> \/ sessions # <<>>) =>
             /\ patches = loaded
             /\ patches' = patches
       /\ patches' # patches =>
             /\ pc = "add"
             /\ endpoints = <<>> /\ endpoints' = <<>>
             /\ sessions = <<>> /\ sessions' = <<>>]_vars

\* After shutdown, with endpoints started, a session is writing the answer
\* the resolver computed from the complete catalog.
C19_Witness ==
    /\ cancel_token
    /\ Len(endpoints) = 2
    /\ Len(patches) = 2
    /\ \E s \in DOMAIN sessions :
          /\ sessions[s].pc = "Writing"
          /\ sessions[s].call # NoCall
          /\ Len(sessions[s].resp.patch_files) >= 1

\* C20 as stated: for a PatchRequest of version v on the endpoint of target t,
\* v # t, the current value the resolver is called with is v, and the resolver
\* runs the downgrade regime (its current above its target) exactly when v > t.
C20_RegimeAgreesWithVersion ==
    \A s \in DOMAIN sessions :
        AnsweringOtherVersion(s) =>
            LET v == sessions[s].cur.version
                t == sessions[s].target
                call == sessions[s].call
            IN /\ call # NoCall
               /\ call[1] = v
               /\ (call[1] > call[2]) <=> (v > t)

====
